---- MODULE Spec2Model ----
(***************************************************************************)
(* Model of AWS-TGW-att.py: a CloudFormation custom-resource handler that  *)
(* discovers tagged VPCs, attaches them to a transit gateway and adds      *)
(* routes to it.                                                           *)
(*                                                                         *)
(* Python strings that the code splits or compares are sequences of        *)
(* one-character strings; identifiers that are only passed around are      *)
(* plain strings.  The provider (EC2 / IAM) is the environment: a describe *)
(* call returns what its filters name, a mutating call that returns takes  *)
(* effect, and any call may raise instead (permissions, throttling,        *)
(* duplicate resource, ...).  Which calls raise is chosen by the fault set *)
(* F handed to each function: the call that would become entry number i of *)
(* the call log raises iff i \in F.                                        *)
(***************************************************************************)
EXTENDS Integers, Sequences, FiniteSets, TLC

VARIABLES event, context, vpcs, Subnets, RouteTables, roles, attachments,
          pc, cidr, vpc_metadata, calls, callbacks, routes0, result

vars == <<event, context, vpcs, Subnets, RouteTables, roles, attachments,
          pc, cidr, vpc_metadata, calls, callbacks, routes0, result>>

\* ------------------------------------------------------------------ bounds
MaxTags == 2
MaxCidrs == 2
MaxSubnets == 3

\* --------------------------------------------------------------- constants
SUCCESS == "SUCCESS"
FAILED == "FAILED"
SleepSeconds == 90
ServiceRoleName == "AWSServiceRoleForVPCTransitGateway"

\* ------------------------------------------------------------ Python values
None == [isNone |-> TRUE, val |-> <<>>]
Some(v) == [isNone |-> FALSE, val |-> v]

\* truth value of a list-or-None (if entry['Subnet']:)
Truthy(x) == ~x.isNone /\ x.val # <<>>

\* a == b between a str and a list: values of different types are never equal
Str(s) == [type |-> "str", v |-> s]
List(l) == [type |-> "list", v |-> l]
PyEq(a, b) == a.type = b.type /\ a.v = b.v

\* str.split(sep): always at least one piece, empty pieces kept
RECURSIVE SplitFrom(_, _, _)
SplitFrom(s, sep, cur) ==
    IF s = <<>> THEN <<cur>>
    ELSE IF Head(s) = sep THEN <<cur>> \o SplitFrom(Tail(s), sep, <<>>)
    ELSE SplitFrom(Tail(s), sep, Append(cur, Head(s)))

Split(s, sep) == SplitFrom(s, sep, <<>>)

\* str.replace(ch, '')
RemoveChar(s, ch) == SelectSeq(s, LAMBDA c : c # ch)

\* ---------------------------------------------------- provider call context
\* ctx = [log, rts, att, roles]: the call log and the provider-side state a
\* function has produced so far.
Fails(ctx, F) == (Len(ctx.log) + 1) \in F

Logged(ctx, e) == [ctx EXCEPT !.log = Append(@, e)]

Ctx0 == [log |-> calls, rts |-> RouteTables, att |-> attachments, roles |-> roles]

\* ------------------------------------------------------------- get_subnets
AzSeenBySubnetId(az_subnet_mapping, sub) ==
    \E k \in 1..Len(az_subnet_mapping) : sub.SubnetId \in DOMAIN az_subnet_mapping[k]

\* any(sub['AvailabilityZone'] in az for az in az_subnet_mapping)
AzSeen(az_subnet_mapping, sub) ==
    \E k \in 1..Len(az_subnet_mapping) :
        sub.AvailabilityZone \in DOMAIN az_subnet_mapping[k]

\* for sub in response['Subnets']: append {AZ: SubnetId} unless the AZ is seen
RECURSIVE AzResponseLoop(_, _)
AzResponseLoop(response, az_subnet_mapping) ==
    IF response = <<>> THEN az_subnet_mapping
    ELSE LET sub == Head(response) IN
         AzResponseLoop(Tail(response),
             IF ~AzSeen(az_subnet_mapping, sub)
             THEN Append(az_subnet_mapping, (sub.AvailabilityZone :> sub.SubnetId))
             ELSE az_subnet_mapping)

\* for subnet in subnet_list: describe_subnets(subnet-id = subnet)
RECURSIVE SubnetLoop(_, _, _, _)
SubnetLoop(subnet_list, az_subnet_mapping, F, ctx) ==
    IF subnet_list = <<>> THEN [ret |-> Some(az_subnet_mapping), ctx |-> ctx]
    ELSE LET subnet == Head(subnet_list)
             e == [op |-> "describe_subnets", by |-> "subnet-id", id |-> subnet]
         IN IF Fails(ctx, F)
            THEN [ret |-> None, ctx |-> Logged(ctx, e @@ [ok |-> FALSE])]
            ELSE LET response == SelectSeq(Subnets, LAMBDA s : s.SubnetId = subnet)
                 IN SubnetLoop(Tail(subnet_list),
                               AzResponseLoop(response, az_subnet_mapping),
                               F, Logged(ctx, e @@ [ok |-> TRUE]))

\* for subnet_mapping in az_subnet_mapping: for key, value in items(): append(value)
RECURSIVE MappingValues(_)
MappingValues(az_subnet_mapping) ==
    IF az_subnet_mapping = <<>> THEN <<>>
    ELSE LET m == Head(az_subnet_mapping)
             key == CHOOSE k \in DOMAIN m : TRUE
         IN <<m[key]>> \o MappingValues(Tail(az_subnet_mapping))

SubnetIdsOf(response) == [k \in 1..Len(response) |-> response[k].SubnetId]

get_subnets(returned_vpc, vpc_tag, F, ctx) ==
    LET e == [op |-> "describe_subnets", by |-> "vpc-id", id |-> returned_vpc] IN
    IF Fails(ctx, F)
    THEN [ret |-> None, ctx |-> Logged(ctx, e @@ [ok |-> FALSE])]
    ELSE LET response == SelectSeq(Subnets,
                 LAMBDA s : s.VpcId = returned_vpc /\ s.TgwAttach = vpc_tag)
             subnet_list == SubnetIdsOf(response)
             r == SubnetLoop(subnet_list, <<>>, F, Logged(ctx, e @@ [ok |-> TRUE]))
         IN IF r.ret.isNone THEN r
            ELSE [ret |-> Some(MappingValues(r.ret.val)), ctx |-> r.ctx]

\* ------------------------------------------------- get_default_route_table
HasDestination(route) == "DestinationCidrBlock" \in DOMAIN route

RouteMatchesBlock(route, cidr_list, block) ==
    PyEq(Str(route.DestinationCidrBlock), Str(block))

\* route['DestinationCidrBlock'] == cidr   (cidr is the whole list)
RouteMatches(route, cidr_list, block) ==
    PyEq(Str(route.DestinationCidrBlock), List(cidr_list))

\* the provider removes the route of that table with that destination
DeleteRouteIn(rts, route_table, block) ==
    [k \in 1..Len(rts) |->
        IF rts[k].RouteTableId = route_table
        THEN [rts[k] EXCEPT !.Routes = SelectSeq(@,
                  LAMBDA r : ~(HasDestination(r) /\ r.DestinationCidrBlock = block))]
        ELSE rts[k]]

\* for block in cidr: if route[...] == cidr: delete_route(block, route_table)
RECURSIVE DefaultBlockLoop(_, _, _, _, _, _)
DefaultBlockLoop(blocks, route, cidr_list, route_table, F, ctx) ==
    IF blocks = <<>> THEN [failed |-> FALSE, ctx |-> ctx]
    ELSE LET block == Head(blocks)
             e == [op |-> "delete_route", RouteTableId |-> route_table,
                   DestinationCidrBlock |-> Str(block)]
         IN IF RouteMatches(route, cidr_list, block)
            THEN IF Fails(ctx, F)
                 THEN [failed |-> TRUE, ctx |-> Logged(ctx, e @@ [ok |-> FALSE])]
                 ELSE DefaultBlockLoop(Tail(blocks), route, cidr_list, route_table, F,
                          [Logged(ctx, e @@ [ok |-> TRUE]) EXCEPT
                              !.rts = DeleteRouteIn(@, route_table, block)])
            ELSE DefaultBlockLoop(Tail(blocks), route, cidr_list, route_table, F, ctx)

\* for route in describe_routes[0]['Routes']
RECURSIVE DefaultRouteLoop(_, _, _, _, _)
DefaultRouteLoop(routes, cidr_list, route_table, F, ctx) ==
    IF routes = <<>> THEN [failed |-> FALSE, ctx |-> ctx]
    ELSE LET route == Head(routes) IN
         IF HasDestination(route)
         THEN LET r == DefaultBlockLoop(cidr_list, route, cidr_list, route_table, F, ctx)
              IN IF r.failed THEN r
                 ELSE DefaultRouteLoop(Tail(routes), cidr_list, route_table, F, r.ctx)
         ELSE DefaultRouteLoop(Tail(routes), cidr_list, route_table, F, ctx)

\* for route_table in route_table_ids: describe_route_tables(RouteTableIds=[route_table])
RECURSIVE DefaultTableLoop(_, _, _, _)
DefaultTableLoop(ids, cidr_list, F, ctx) ==
    IF ids = <<>> THEN [failed |-> FALSE, ctx |-> ctx]
    ELSE LET route_table == Head(ids)
             e == [op |-> "describe_route_tables", by |-> "ids", ids |-> <<route_table>>]
         IN IF Fails(ctx, F)
            THEN [failed |-> TRUE, ctx |-> Logged(ctx, e @@ [ok |-> FALSE])]
            ELSE LET describe_routes ==
                         SelectSeq(ctx.rts, LAMBDA t : t.RouteTableId = route_table)
                     r == DefaultRouteLoop(describe_routes[1].Routes, cidr_list,
                                           route_table, F,
                                           Logged(ctx, e @@ [ok |-> TRUE]))
                 IN IF r.failed THEN r
                    ELSE DefaultTableLoop(Tail(ids), cidr_list, F, r.ctx)

RouteTableIdsOf(tables) == [k \in 1..Len(tables) |-> tables[k].RouteTableId]

get_default_route_table(returned_vpc, cidr_list, vpc_tag, F, ctx) ==
    LET e == [op |-> "describe_route_tables", by |-> "vpc-id", id |-> returned_vpc] IN
    IF Fails(ctx, F)
    THEN [ret |-> None, ctx |-> Logged(ctx, e @@ [ok |-> FALSE])]
    ELSE LET describe_route_tables == SelectSeq(ctx.rts,
                 LAMBDA t : t.VpcId = returned_vpc /\ ~t.Main /\ t.TgwAttach = vpc_tag)
             route_table_ids == RouteTableIdsOf(describe_route_tables)
             r == DefaultTableLoop(route_table_ids, cidr_list, F,
                                   Logged(ctx, e @@ [ok |-> TRUE]))
         IN IF r.failed THEN [ret |-> None, ctx |-> r.ctx]
            ELSE [ret |-> Some(route_table_ids), ctx |-> r.ctx]

\* -------------------------------------------------------- get_vpc_metadata
\* for tag_value in vpc['Tags']: if tag_value['Value'] == tag: build a record
RECURSIVE TagValueLoop(_, _, _, _, _, _, _)
TagValueLoop(tag_values, vpc, tag, cidr_list, returned_metadata, F, ctx) ==
    IF tag_values = <<>> THEN [meta |-> returned_metadata, ctx |-> ctx]
    ELSE LET tag_value == Head(tag_values) IN
         IF tag_value.Value = tag
         THEN LET returned_vpc == vpc.VpcId
                  s == get_subnets(returned_vpc, "True", F, ctx)
                  t == get_default_route_table(returned_vpc, cidr_list, "True", F, s.ctx)
                  metadata == [Vpc |-> returned_vpc, Subnet |-> s.ret,
                               Route_Tables |-> t.ret]
              IN TagValueLoop(Tail(tag_values), vpc, tag, cidr_list,
                              Append(returned_metadata, metadata), F, t.ctx)
         ELSE TagValueLoop(Tail(tag_values), vpc, tag, cidr_list,
                           returned_metadata, F, ctx)

\* for vpc in get_vpc_response['Vpcs']: if 'Tags' in vpc
RECURSIVE VpcLoop(_, _, _, _, _, _)
VpcLoop(response, tag, cidr_list, returned_metadata, F, ctx) ==
    IF response = <<>> THEN [meta |-> returned_metadata, ctx |-> ctx]
    ELSE LET vpc == Head(response) IN
         IF "Tags" \in DOMAIN vpc
         THEN LET r == TagValueLoop(vpc.Tags, vpc, tag, cidr_list,
                                    returned_metadata, F, ctx)
              IN VpcLoop(Tail(response), tag, cidr_list, r.meta, F, r.ctx)
         ELSE VpcLoop(Tail(response), tag, cidr_list, returned_metadata, F, ctx)

\* for tag in vpc_tags: describe_vpcs()
RECURSIVE TagLoop(_, _, _, _, _)
TagLoop(vpc_tags, cidr_list, returned_metadata, F, ctx) ==
    IF vpc_tags = <<>> THEN [ret |-> Some(returned_metadata), ctx |-> ctx]
    ELSE LET tag == Head(vpc_tags)
             e == [op |-> "describe_vpcs"]
         IN IF Fails(ctx, F)
            THEN [ret |-> None, ctx |-> Logged(ctx, e @@ [ok |-> FALSE])]
            ELSE LET r == VpcLoop(vpcs, tag, cidr_list, returned_metadata, F,
                                  Logged(ctx, e @@ [ok |-> TRUE]))
                 IN TagLoop(Tail(vpc_tags), cidr_list, r.meta, F, r.ctx)

ParseVpcTags(vpc_tags) == Split(RemoveChar(vpc_tags, " "), ",")

get_vpc_metadata(account, region, vpc_tags, cidr_list, F, ctx) ==
    TagLoop(ParseVpcTags(vpc_tags), cidr_list, <<>>, F, ctx)

\* ------------------------------------------------- create_transit_gateways
\* for entry in vpc_metadata: attach when entry['Subnet'] is non-empty;
\* an exception returns at once, before time.sleep(90)
RECURSIVE AttachLoop(_, _, _, _)
AttachLoop(entries, tgw_id, F, ctx) ==
    IF entries = <<>>
    THEN Logged(ctx, [op |-> "sleep", secs |-> SleepSeconds, ok |-> TRUE])
    ELSE LET entry == Head(entries)
             e == [op |-> "create_transit_gateway_vpc_attachment",
                   TransitGatewayId |-> tgw_id, VpcId |-> entry.Vpc,
                   SubnetIds |-> entry.Subnet]
         IN IF Truthy(entry.Subnet)
            THEN IF Fails(ctx, F)
                 THEN Logged(ctx, e @@ [ok |-> FALSE])
                 ELSE AttachLoop(Tail(entries), tgw_id, F,
                          [Logged(ctx, e @@ [ok |-> TRUE]) EXCEPT
                              !.att = Append(@, [TransitGatewayId |-> tgw_id,
                                                 VpcId |-> entry.Vpc,
                                                 SubnetIds |-> entry.Subnet.val])])
            ELSE AttachLoop(Tail(entries), tgw_id, F, ctx)

\* iterating None raises TypeError outside any try
create_transit_gateways(metadata, tgw_id, F, ctx) ==
    IF metadata.isNone THEN [raised |-> TRUE, ctx |-> ctx]
    ELSE [raised |-> FALSE, ctx |-> AttachLoop(metadata.val, tgw_id, F, ctx)]

\* ------------------------------------------------- create_vpc_route_to_tgw
\* route['DestinationCidrBlock'] == cidr   (line 92)
RouteIsCidr(route, cidr_list) ==
    PyEq(Str(route.DestinationCidrBlock), List(cidr_list))

\* the provider adds a route to the table
CreateRouteIn(rts, route_table, block, tgw_id) ==
    [k \in 1..Len(rts) |->
        IF rts[k].RouteTableId = route_table
        THEN [rts[k] EXCEPT !.Routes = Append(@,
                  [DestinationCidrBlock |-> block, TransitGatewayId |-> tgw_id])]
        ELSE rts[k]]

\* for block in cidr: create_route(rt, block, tgw_id)
RECURSIVE CreateBlockLoop(_, _, _, _, _)
CreateBlockLoop(blocks, route_table, tgw_id, F, ctx) ==
    IF blocks = <<>> THEN [failed |-> FALSE, ctx |-> ctx]
    ELSE LET block == Head(blocks)
             e == [op |-> "create_route", RouteTableId |-> route_table,
                   DestinationCidrBlock |-> Str(block), TransitGatewayId |-> tgw_id]
         IN IF Fails(ctx, F)
            THEN [failed |-> TRUE, ctx |-> Logged(ctx, e @@ [ok |-> FALSE])]
            ELSE CreateBlockLoop(Tail(blocks), route_table, tgw_id, F,
                     [Logged(ctx, e @@ [ok |-> TRUE]) EXCEPT
                         !.rts = CreateRouteIn(@, route_table, block, tgw_id)])

\* for route in rt['Routes']: delete_route(DestinationCidrBlock=cidr, ...) on a
\* match; the list-valued argument is rejected, which raises into the except
RECURSIVE StaleRouteLoop(_, _, _, _)
StaleRouteLoop(routes, cidr_list, route_table, ctx) ==
    IF routes = <<>> THEN [failed |-> FALSE, ctx |-> ctx]
    ELSE LET route == Head(routes) IN
         IF HasDestination(route) /\ RouteIsCidr(route, cidr_list)
         THEN [failed |-> TRUE,
               ctx |-> Logged(ctx, [op |-> "delete_route", RouteTableId |-> route_table,
                                    DestinationCidrBlock |-> List(cidr_list),
                                    ok |-> FALSE])]
         ELSE StaleRouteLoop(Tail(routes), cidr_list, route_table, ctx)

\* for rt in describe_routes
RECURSIVE RouteTableLoop(_, _, _, _, _)
RouteTableLoop(tables, tgw_id, cidr_list, F, ctx) ==
    IF tables = <<>> THEN [failed |-> FALSE, ctx |-> ctx]
    ELSE LET rt == Head(tables)
             d == StaleRouteLoop(rt.Routes, cidr_list, rt.RouteTableId, ctx)
         IN IF d.failed THEN d
            ELSE LET c == CreateBlockLoop(cidr_list, rt.RouteTableId, tgw_id, F, d.ctx)
                 IN IF c.failed THEN c
                    ELSE RouteTableLoop(Tail(tables), tgw_id, cidr_list, F, c.ctx)

InSeq(x, s) == \E k \in 1..Len(s) : s[k] = x

\* for entry in vpc_metadata: if entry['Subnet']: describe, then program routes;
\* any exception returns from the whole function
RECURSIVE RouteEntryLoop(_, _, _, _, _)
RouteEntryLoop(entries, tgw_id, cidr_list, F, ctx) ==
    IF entries = <<>> THEN ctx
    ELSE LET entry == Head(entries)
             e == [op |-> "describe_route_tables", by |-> "ids",
                   ids |-> entry.Route_Tables]
         IN IF Truthy(entry.Subnet)
            THEN IF entry.Route_Tables.isNone \/ Fails(ctx, F)
                 THEN Logged(ctx, e @@ [ok |-> FALSE])
                 ELSE LET describe_routes == SelectSeq(ctx.rts,
                              LAMBDA t : InSeq(t.RouteTableId, entry.Route_Tables.val))
                          r == RouteTableLoop(describe_routes, tgw_id, cidr_list, F,
                                              Logged(ctx, e @@ [ok |-> TRUE]))
                      IN IF r.failed THEN r.ctx
                         ELSE RouteEntryLoop(Tail(entries), tgw_id, cidr_list, F, r.ctx)
            ELSE RouteEntryLoop(Tail(entries), tgw_id, cidr_list, F, ctx)

create_vpc_route_to_tgw(metadata, tgw_id, cidr_list, F, ctx) ==
    IF metadata.isNone THEN [raised |-> TRUE, ctx |-> ctx]
    ELSE [raised |-> FALSE,
          ctx |-> RouteEntryLoop(metadata.val, tgw_id, cidr_list, F, ctx)]

\* ------------------------------------------------ create_service_link_role
\* list_roles and create_service_linked_role are not inside any try
create_service_link_role(F, ctx) ==
    LET l == [op |-> "list_roles"]
        c == [op |-> "create_service_linked_role",
              AWSServiceName |-> "transitgateway.amazonaws.com"]
    IN IF Fails(ctx, F)
       THEN [raised |-> TRUE, ctx |-> Logged(ctx, l @@ [ok |-> FALSE])]
       ELSE LET ctx1 == Logged(ctx, l @@ [ok |-> TRUE])
                service_role_exists == ServiceRoleName \in ctx1.roles
            IN IF ~service_role_exists
               THEN IF Fails(ctx1, F)
                    THEN [raised |-> TRUE, ctx |-> Logged(ctx1, c @@ [ok |-> FALSE])]
                    ELSE [raised |-> FALSE,
                          ctx |-> [Logged(ctx1, c @@ [ok |-> TRUE]) EXCEPT
                                      !.roles = @ \cup {ServiceRoleName}]]
               ELSE [raised |-> FALSE, ctx |-> ctx1]

\* -------------------------------------------------------------------- send
\* builds the response body and PUTs it; a failing PUT is caught and only
\* printed, so the outcome of the PUT changes nothing in the handler
send(ev, cx, responseStatus, response_data) ==
    [Status |-> responseStatus,
     PhysicalResourceId |-> cx.log_stream_name,
     StackId |-> ev.StackId,
     RequestId |-> ev.RequestId,
     LogicalResourceId |-> ev.LogicalResourceId,
     NoEcho |-> FALSE,
     Data |-> response_data]

\* ------------------------------------------------------- the provider world
VpcIdSet == {"vpc-1", "vpc-2"}
AzSet == {"az-a", "az-b"}
TagA == <<"a">>
TagB == <<"b">>
TagValues == {TagA, TagB}
CidrPool == << <<"p">>, <<"q">>, <<"r">> >>
SubnetIdPool == <<"subnet-1", "subnet-2", "subnet-3", "subnet-4", "subnet-5">>
RequestTypes == {"Create", "Update", "Delete", "Replace"}

\* separator.join(list)
RECURSIVE Join(_, _)
Join(list, sep) ==
    IF list = <<>> THEN <<>>
    ELSE IF Len(list) = 1 THEN Head(list)
    ELSE Head(list) \o sep \o Join(Tail(list), sep)

SeqsUpTo(S, lo, hi) == UNION {[1..n -> S] : n \in lo..hi}

\* Vpc_Tags as the stack passes it: "a", "a, a", "a, b", ... (first tag "a")
TagStrings ==
    {Join(l, <<",", " ">>) : l \in {t \in SeqsUpTo(TagValues, 1, MaxTags) : t[1] = TagA}}

\* CIDR as the stack passes it: "p", "p,q", ...
CidrStrings == {Join(SubSeq(CidrPool, 1, n), <<",">>) : n \in 1..MaxCidrs}

Vpc1Choices ==
    { [VpcId |-> "vpc-1"],
      [VpcId |-> "vpc-1", Tags |-> <<[Key |-> "Name", Value |-> TagA]>>],
      [VpcId |-> "vpc-1", Tags |-> <<[Key |-> "Name", Value |-> TagA],
                                     [Key |-> "Env", Value |-> TagA]>>],
      [VpcId |-> "vpc-1", Tags |-> <<[Key |-> "Name", Value |-> TagA],
                                     [Key |-> "Env", Value |-> TagB]>>] }

Vpc2Choices ==
    { [VpcId |-> "vpc-2", Tags |-> <<[Key |-> "Name", Value |-> TagB]>>] }

VpcWorlds == {<<v1, v2>> : v1 \in Vpc1Choices, v2 \in Vpc2Choices}

Subnet(k, vpc, az, tag) ==
    [SubnetId |-> SubnetIdPool[k], VpcId |-> vpc, AvailabilityZone |-> az,
     TgwAttach |-> tag]

\* both VPCs have tagged subnets / vpc-1 has none that is tagged
SubnetWorlds ==
    { << Subnet(1, "vpc-1", "az-a", "True"), Subnet(2, "vpc-1", "az-a", "True"),
         Subnet(4, "vpc-2", "az-a", "True") >>,
      << Subnet(1, "vpc-1", "az-a", "False"), Subnet(4, "vpc-2", "az-a", "True") >> }

\* every listing of up to MaxSubnets subnets over the VPCs, zones and tag values
AllSubnetWorlds ==
    UNION { { [k \in 1..n |-> Subnet(k, w[k][1], w[k][2], w[k][3])] :
                w \in [1..n -> VpcIdSet \X AzSet \X {"True", "False"}] } :
            n \in 0..MaxSubnets }

LocalRoute == [DestinationCidrBlock |-> <<"l">>, GatewayId |-> "local"]

Table(id, vpc, main, tag, routes) ==
    [RouteTableId |-> id, VpcId |-> vpc, Main |-> main, TgwAttach |-> tag,
     Routes |-> routes]

\* rtb-3 is the main table of vpc-1 and rtb-4 is not tagged; in the second
\* world rtb-1 already routes the first CIDR block and holds a prefix-list route
RouteWorlds ==
    { << Table("rtb-1", "vpc-1", FALSE, "True", <<LocalRoute>>),
         Table("rtb-2", "vpc-2", FALSE, "True", <<LocalRoute>>),
         Table("rtb-3", "vpc-1", TRUE, "True", <<LocalRoute>>),
         Table("rtb-4", "vpc-2", FALSE, "False", <<LocalRoute>>) >>,
      << Table("rtb-1", "vpc-1", FALSE, "True",
               <<LocalRoute,
                 [DestinationCidrBlock |-> CidrPool[1], GatewayId |-> "igw-1"],
                 [DestinationPrefixListId |-> "pl-1", GatewayId |-> "vpce-1"]>>),
         Table("rtb-2", "vpc-2", FALSE, "True", <<LocalRoute>>),
         Table("rtb-3", "vpc-1", TRUE, "True", <<LocalRoute>>),
         Table("rtb-4", "vpc-2", FALSE, "False", <<LocalRoute>>) >> }

RoleWorlds == {{"Admin"}, {"Admin", ServiceRoleName}}

Events ==
    { [RequestType |-> rt,
       ResourceProperties |-> [Account |-> "111", Region |-> "eu-west-1",
                               Vpc_Tags |-> tags, CIDR |-> c,
                               Transit_Gateway_Id |-> "tgw-1"],
       StackId |-> "stack-1", RequestId |-> "req-1",
       LogicalResourceId |-> "res-1", ResponseURL |-> "url-1"] :
      rt \in RequestTypes, tags \in TagStrings, c \in CidrStrings }

NoResult == [fn |-> "", arg |-> "", ret |-> None]

\* ------------------------------------------------------------------- Init
Init ==
    /\ event \in Events
    /\ context = [log_stream_name |-> "stream-1"]
    /\ vpcs \in VpcWorlds
    /\ Subnets \in SubnetWorlds
    /\ RouteTables \in RouteWorlds
    /\ roles \in RoleWorlds
    /\ attachments = <<>>
    /\ pc = "start"
    /\ cidr = <<>>
    /\ vpc_metadata = None
    /\ calls = <<>>
    /\ callbacks = <<>>
    /\ routes0 = RouteTables
    /\ result = NoResult

\* --------------------------------------------------------- lambda_handler
\* the fault sets a function may meet: no fault, or one raising call among
\* the n calls after the current end of the log
FaultSets(n) == {{}} \cup {{Len(calls) + i} : i \in 1..n}

Commit(ctx) ==
    /\ calls' = ctx.log
    /\ RouteTables' = ctx.rts
    /\ attachments' = ctx.att
    /\ roles' = ctx.roles

IsCreateOnly(ev) == ev.RequestType \in {"Create"}

IsNotDelete(ev) == ev.RequestType \notin {"Delete"}

\* event['RequestType'] in ['Update', 'Create']
IsCreateOrUpdate(ev) == ev.RequestType \in {"Update", "Create"}

\* event['RequestType'] in ['Delete']
IsDelete(ev) == ev.RequestType \in {"Delete"}

\* lines 42-57: read the properties, split CIDR, branch on the request type
Start ==
    /\ pc = "start"
    /\ cidr' = Split(event.ResourceProperties.CIDR, ",")
    /\ pc' = IF IsCreateOrUpdate(event) THEN "role" ELSE "else_failed"
    /\ UNCHANGED <<event, context, vpcs, Subnets, RouteTables, roles, attachments,
                   vpc_metadata, calls, callbacks, routes0, result>>

\* line 60
CreateServiceLinkRole ==
    /\ pc = "role"
    /\ \E F \in FaultSets(2) :
          LET r == create_service_link_role(F, Ctx0) IN
          /\ Commit(r.ctx)
          /\ pc' = IF r.raised THEN "raised" ELSE "metadata"
    /\ UNCHANGED <<event, context, vpcs, Subnets, cidr, vpc_metadata, callbacks,
                   routes0, result>>

\* line 61
GetVpcMetadata ==
    /\ pc = "metadata"
    /\ LET p == event.ResourceProperties
           n == Len(get_vpc_metadata(p.Account, p.Region, p.Vpc_Tags, cidr,
                                     {}, Ctx0).ctx.log) - Len(calls)
       IN \E F \in FaultSets(n) :
             LET r == get_vpc_metadata(p.Account, p.Region, p.Vpc_Tags, cidr, F, Ctx0)
             IN /\ Commit(r.ctx)
                /\ vpc_metadata' = r.ret
    /\ pc' = "gateways"
    /\ UNCHANGED <<event, context, vpcs, Subnets, cidr, callbacks, routes0, result>>

\* line 62
CreateTransitGateways ==
    /\ pc = "gateways"
    /\ LET tgw_id == event.ResourceProperties.Transit_Gateway_Id
           n == Len(create_transit_gateways(vpc_metadata, tgw_id, {}, Ctx0).ctx.log)
                    - Len(calls)
       IN \E F \in FaultSets(n) :
             LET r == create_transit_gateways(vpc_metadata, tgw_id, F, Ctx0) IN
             /\ Commit(r.ctx)
             /\ pc' = IF r.raised THEN "raised" ELSE "routes"
    /\ UNCHANGED <<event, context, vpcs, Subnets, cidr, vpc_metadata, callbacks,
                   routes0, result>>

\* line 63
CreateVpcRouteToTgw ==
    /\ pc = "routes"
    /\ LET tgw_id == event.ResourceProperties.Transit_Gateway_Id
           n == Len(create_vpc_route_to_tgw(vpc_metadata, tgw_id, cidr, {},
                                            Ctx0).ctx.log) - Len(calls)
       IN \E F \in FaultSets(n) :
             LET r == create_vpc_route_to_tgw(vpc_metadata, tgw_id, cidr, F, Ctx0) IN
             /\ Commit(r.ctx)
             /\ pc' = IF r.raised THEN "raised" ELSE "send_success"
    /\ UNCHANGED <<event, context, vpcs, Subnets, cidr, vpc_metadata, callbacks,
                   routes0, result>>

\* line 65
SendSuccess ==
    /\ pc = "send_success"
    /\ callbacks' = Append(callbacks, send(event, context, SUCCESS, <<>>))
    /\ pc' = "delete_check"
    /\ UNCHANGED <<event, context, vpcs, Subnets, RouteTables, roles, attachments,
                   cidr, vpc_metadata, calls, routes0, result>>

\* lines 67-69: the else of the Create/Update test
SendFailed ==
    /\ pc = "else_failed"
    /\ callbacks' = Append(callbacks, send(event, context, FAILED, <<>>))
    /\ pc' = "delete_check"
    /\ UNCHANGED <<event, context, vpcs, Subnets, RouteTables, roles, attachments,
                   cidr, vpc_metadata, calls, routes0, result>>

\* lines 71-74: a second, separate test for Delete
DeleteCheck ==
    /\ pc = "delete_check"
    /\ callbacks' = IF IsDelete(event)
                    THEN Append(callbacks, send(event, context, SUCCESS, <<>>))
                    ELSE callbacks
    /\ pc' = "done"
    /\ UNCHANGED <<event, context, vpcs, Subnets, RouteTables, roles, attachments,
                   cidr, vpc_metadata, calls, routes0, result>>

Next ==
    \/ Start
    \/ CreateServiceLinkRole
    \/ GetVpcMetadata
    \/ CreateTransitGateways
    \/ CreateVpcRouteToTgw
    \/ SendSuccess
    \/ SendFailed
    \/ DeleteCheck

Spec == Init /\ [][Next]_vars

\* --------------------------------------------- get_subnets on its own inputs
InitSubnets ==
    /\ event \in {ev \in Events : ev.RequestType = "Create"
                      /\ ev.ResourceProperties.Vpc_Tags = TagA
                      /\ ev.ResourceProperties.CIDR = CidrPool[1]}
    /\ context = [log_stream_name |-> "stream-1"]
    /\ vpcs \in {w \in VpcWorlds : \A k \in 1..2 : "Tags" \in DOMAIN w[k]
                                       /\ Len(w[k].Tags) = 1}
    /\ Subnets \in AllSubnetWorlds
    /\ RouteTables \in {w \in RouteWorlds : Len(w[1].Routes) = 1}
    /\ roles = {"Admin"}
    /\ attachments = <<>>
    /\ pc = "subnets_call"
    /\ cidr = <<>>
    /\ vpc_metadata = None
    /\ calls = <<>>
    /\ callbacks = <<>>
    /\ routes0 = RouteTables
    /\ result = NoResult

GetSubnetsCall ==
    /\ pc = "subnets_call"
    /\ \E v \in VpcIdSet :
          LET n == Len(get_subnets(v, "True", {}, Ctx0).ctx.log) IN
          \E F \in FaultSets(n) :
             LET r == get_subnets(v, "True", F, Ctx0) IN
             /\ calls' = r.ctx.log
             /\ result' = [fn |-> "get_subnets", arg |-> v, ret |-> r.ret]
    /\ pc' = "subnets_done"
    /\ UNCHANGED <<event, context, vpcs, Subnets, RouteTables, roles, attachments,
                   cidr, vpc_metadata, callbacks, routes0>>

NextSubnets == GetSubnetsCall

SpecSubnets == InitSubnets /\ [][NextSubnets]_vars

\* ================================================================= claims
Ended == pc \in {"done", "raised"}
AfterRoutes == pc \in {"send_success", "delete_check", "done"}
CreateOrUpdateEvent == event.RequestType \in {"Create", "Update"}
CallIdx == 1..Len(calls)
CallsWith(op) == {k \in CallIdx : calls[k].op = op}
MutationOps == {"create_service_linked_role", "create_transit_gateway_vpc_attachment",
                "create_route", "delete_route"}
DiscoveryOps == {"describe_vpcs", "describe_subnets", "describe_route_tables"}
NoCallFailed == \A k \in CallIdx : calls[k].ok
Statuses == {callbacks[k].Status : k \in 1..Len(callbacks)}
MetaIdx == IF vpc_metadata.isNone THEN {} ELSE 1..Len(vpc_metadata.val)
Meta(i) == vpc_metadata.val[i]

\* C1: every invocation that has ended, whatever the event and whatever the
\* provider calls did, has invoked the callback with SUCCESS or FAILED.
C1_AlwaysCallback ==
    Ended => (callbacks # <<>> /\ Statuses \subseteq {SUCCESS, FAILED})

\* C2: on Delete exactly one callback is sent, it is SUCCESS, FAILED is never
\* sent, and no provider mutation is issued.
C2_DeleteOneSuccess ==
    event.RequestType = "Delete" =>
        /\ Len(callbacks) <= 1
        /\ FAILED \notin Statuses
        /\ (pc = "done" => Len(callbacks) = 1 /\ Statuses = {SUCCESS})
        /\ \A k \in CallIdx : calls[k].op \notin MutationOps

\* C3: for a RequestType other than Create, Update, Delete the handler sends
\* FAILED, never SUCCESS, and issues no discovery, attachment or route call.
C3_UnknownTypeFails ==
    event.RequestType \notin {"Create", "Update", "Delete"} =>
        /\ SUCCESS \notin Statuses
        /\ (Ended => pc = "done" /\ FAILED \in Statuses)
        /\ \A k \in CallIdx :
              calls[k].op \notin DiscoveryOps \cup
                  {"create_transit_gateway_vpc_attachment", "create_route",
                   "delete_route"}

C3_Witness ==
    /\ event.RequestType = "Replace"
    /\ pc = "done"
    /\ Len(callbacks) = 1
    /\ callbacks[1].Status = FAILED

\* number of entries of a comma-separated string: its commas plus one
CommaCount(s) == Cardinality({k \in 1..Len(s) : s[k] = ","})

\* C4: with no failing provider call, get_vpc_metadata on N tags issues
\* exactly N describe-VPCs calls and returns at most one record per VPC id.
C4_OneRecordPerVpc ==
    (pc = "gateways" /\ NoCallFailed /\ ~vpc_metadata.isNone) =>
        /\ Cardinality(CallsWith("describe_vpcs"))
              = CommaCount(event.ResourceProperties.Vpc_Tags) + 1
        /\ \A i, j \in MetaIdx : i # j => Meta(i).Vpc # Meta(j).Vpc

\* the tagged subnets of the VPC get_subnets was called for, in listing order
ListedSubnets ==
    SelectSeq(Subnets, LAMBDA s : s.VpcId = result.arg /\ s.TgwAttach = "True")

ZoneOf(id) == (CHOOSE k \in 1..Len(Subnets) : Subnets[k].SubnetId = id)

\* C5: get_subnets returns no two subnets of one availability zone; every zone
\* with a tagged subnet is represented exactly once, by the first listed subnet
\* of that zone.
C5_OnePerZoneFirstWins ==
    (pc = "subnets_done" /\ ~result.ret.isNone) =>
        LET ret == result.ret.val
            listed == ListedSubnets
            zone(i) == Subnets[ZoneOf(ret[i])].AvailabilityZone
        IN /\ \A i \in 1..Len(ret) :
                 \E k \in 1..Len(listed) : listed[k].SubnetId = ret[i]
           /\ \A i, j \in 1..Len(ret) : i # j => zone(i) # zone(j)
           /\ \A k \in 1..Len(listed) :
                 LET az == listed[k].AvailabilityZone
                     first == CHOOSE m \in 1..Len(listed) :
                                 /\ listed[m].AvailabilityZone = az
                                 /\ \A n \in 1..(m - 1) : listed[n].AvailabilityZone # az
                 IN /\ Cardinality({i \in 1..Len(ret) : zone(i) = az}) = 1
                    /\ \E i \in 1..Len(ret) : ret[i] = listed[first].SubnetId

C5_Witness ==
    /\ pc = "subnets_done"
    /\ ~result.ret.isNone
    /\ Len(result.ret.val) = 2
    /\ Len(ListedSubnets) = 3
    /\ ListedSubnets[1].AvailabilityZone = ListedSubnets[3].AvailabilityZone
    /\ ListedSubnets[1].AvailabilityZone # ListedSubnets[2].AvailabilityZone

\* route tables discovered for a VPC that has a selected subnet
EligibleTables ==
    {rt \in {RouteTables[k].RouteTableId : k \in 1..Len(RouteTables)} :
        \E i \in MetaIdx :
            /\ Truthy(Meta(i).Subnet)
            /\ ~Meta(i).Route_Tables.isNone
            /\ InSeq(rt, Meta(i).Route_Tables.val)}

CreateRouteCalls(rt) == {k \in CallsWith("create_route") : calls[k].RouteTableId = rt}

\* C6: in a Create/Update with no failing call, every eligible route table
\* gets exactly one create-route call per CIDR entry, targeting the gateway;
\* every other route table gets none.
C6_OneRoutePerEntry ==
    (CreateOrUpdateEvent /\ AfterRoutes /\ NoCallFailed) =>
        \A t \in 1..Len(RouteTables) :
            LET rt == RouteTables[t].RouteTableId IN
            IF rt \in EligibleTables
            THEN /\ Cardinality(CreateRouteCalls(rt)) = Len(cidr)
                 /\ \A b \in 1..Len(cidr) :
                       Cardinality({k \in CreateRouteCalls(rt) :
                           calls[k].DestinationCidrBlock = Str(cidr[b])}) = 1
                 /\ \A k \in CreateRouteCalls(rt) :
                       calls[k].TransitGatewayId
                           = event.ResourceProperties.Transit_Gateway_Id
            ELSE CreateRouteCalls(rt) = {}

AttachCalls(vpc) ==
    {k \in CallsWith("create_transit_gateway_vpc_attachment") : calls[k].VpcId = vpc}

TableVpc(rt) == (CHOOSE k \in 1..Len(RouteTables) :
                    RouteTables[k].RouteTableId = rt)

\* VPCs whose attachment request or create-route call raised
FailedVpcs ==
    {calls[k].VpcId : k \in {c \in CallsWith("create_transit_gateway_vpc_attachment") :
                                ~calls[c].ok}}
    \cup {RouteTables[TableVpc(calls[k].RouteTableId)].VpcId :
             k \in {c \in CallsWith("create_route") : ~calls[c].ok}}

\* C7: when only attachment or create-route calls fail, every other discovered
\* VPC with subnets still gets its attachment request and its create-route calls.
C7_FailureDoesNotBlockOthers ==
    (/\ CreateOrUpdateEvent
     /\ AfterRoutes
     /\ \A i \in MetaIdx : Truthy(Meta(i).Subnet) /\ ~Meta(i).Route_Tables.isNone
     /\ \A k \in CallIdx : ~calls[k].ok =>
            calls[k].op \in {"create_transit_gateway_vpc_attachment", "create_route"})
    => \A i \in MetaIdx :
          Meta(i).Vpc \notin FailedVpcs =>
              /\ AttachCalls(Meta(i).Vpc) # {}
              /\ \A r \in 1..Len(Meta(i).Route_Tables.val) :
                    \A b \in 1..Len(cidr) :
                       \E k \in CreateRouteCalls(Meta(i).Route_Tables.val[r]) :
                           calls[k].DestinationCidrBlock = Str(cidr[b])

\* C8: every create-route call comes after the 90-unit delay, which itself
\* comes after an attachment request for every discovered VPC with subnets.
C8_RoutesAfterDelay ==
    \A k \in CallsWith("create_route") :
        \E d \in CallsWith("sleep") :
            /\ d < k
            /\ calls[d].secs = 90
            /\ \A i \in MetaIdx :
                  Truthy(Meta(i).Subnet) =>
                      \E a \in AttachCalls(Meta(i).Vpc) : a < d

\* C9: no delete-route call is ever issued, and every route that existed
\* before the invocation is still in its table.
C9_NoRouteDeleted ==
    /\ CallsWith("delete_route") = {}
    /\ \A t \in 1..Len(routes0) :
          /\ RouteTables[t].RouteTableId = routes0[t].RouteTableId
          /\ Len(RouteTables[t].Routes) >= Len(routes0[t].Routes)
          /\ SubSeq(RouteTables[t].Routes, 1, Len(routes0[t].Routes))
                = routes0[t].Routes

\* a one-entry CIDR list equal to the destination of an existing route of a
\* table that both functions have walked
C9_Witness ==
    /\ pc = "done"
    /\ event.RequestType = "Create"
    /\ cidr = <<CidrPool[1]>>
    /\ \E r \in 1..Len(routes0[1].Routes) :
          /\ "DestinationCidrBlock" \in DOMAIN routes0[1].Routes[r]
          /\ routes0[1].Routes[r].DestinationCidrBlock = cidr[1]
    /\ \E k \in CreateRouteCalls(routes0[1].RouteTableId) : calls[k].ok
    /\ \E k \in CallsWith("describe_route_tables") :
          calls[k].ok /\ calls[k].by = "ids"
              /\ calls[k].ids = <<routes0[1].RouteTableId>>

\* C10: for Create/Update every callback sent has status SUCCESS.
C10_CreateUpdateOnlySuccess ==
    CreateOrUpdateEvent => Statuses \subseteq {SUCCESS}

\* every attachment request and every create-route call raised
C10_Witness ==
    /\ event.RequestType = "Update"
    /\ pc = "done"
    /\ Statuses = {SUCCESS}
    /\ AttachCalls("vpc-1") \cup AttachCalls("vpc-2") # {}
    /\ CallsWith("create_route") # {}
    /\ \A k \in CallIdx :
          calls[k].op \in {"create_transit_gateway_vpc_attachment", "create_route"}
              => ~calls[k].ok
    /\ attachments = <<>>
    /\ RouteTables = routes0

====
